---- MODULE Spec2Model ----
(***************************************************************************)
(* Model of the change-detection agent of scripts/persistent_agent.py:     *)
(* the persisted AgentState, run_once and the two modes of main().         *)
(*                                                                         *)
(* Python None is the string "None"; a digest is the string that           *)
(* hash_file returns; a file content is a number, 0 for a file that does   *)
(* not exist on disk.                                                      *)
(***************************************************************************)
EXTENDS Integers, Sequences, FiniteSets, TLC

\* ---------------------------------------------------------------- bounds
\* Number of distinct file contents a tracked file can take.
MaxContent == 2
\* Number of execution attempts (single-run invocations or loop iterations).
MaxRuns == 2
\* The --max-iterations value an invocation is given, when it is given one.
MaxIterations == 5
\* Largest --history-limit value the agent is configured with.
MaxHistoryLimit == 2
\* Largest --snapshot-retention value an invocation is given.
MaxRetention == 1
\* Number of seconds the clock that names the snapshots can show.
MaxClock == 2
\* Largest number of patches in the list given to filter_patches.
MaxPatches == 2

\* ------------------------------------------------------------- constants
None == "None"
\* main(): a history limit that is None (or <= 0) means unlimited.
NoLimit == 0
\* prune_snapshots: a retention that is None (or <= 0) prunes nothing.
NoRetention == 0
\* snapshot_patches returns None as the path when it creates no snapshot.
NoSnapshot == 0
\* PATCH_FILENAMES: the two patch files tracked by default.
PATCH_FILENAMES == <<"A", "B">>
\* Names that --patch can add on the command line.
CliPatchFiles == {<<>>, <<"C">>}
Names == {"A", "B", "C"}
Contents == 1..MaxContent

VARIABLES
    disk,            \* name -> content of the file, 0 when it does not exist
    state_file,      \* the JSON document at state_path
    heartbeat,       \* first line of the heartbeat file: its status ("none"
                     \* when there is no file, "ok", "error") and its message
    pc,              \* position of main(): "idle", "running", "handler", "exited"
    mode,            \* "single" or "loop" (args.loop)
    patch_files,     \* merged tracked-file list of the invocation
    history_limit,   \* configured history limit, NoLimit for None
    max_iterations,  \* args.max_iterations, 0 when not given
    iteration,       \* loop counter of main()
    exc,             \* message of the exception being handled, None if none
    raised,          \* message of the exception that left main(), None if none
    attempts,        \* execution attempts made since the start
    run,             \* locals of the latest call of run_once
    snapshots,       \* snapshot directory: timestamp -> (file name -> content)
    now,             \* the second the clock last showed to snapshot_patches
    snapshots_enabled,   \* not args.disable_snapshots
    snapshot_retention,  \* args.snapshot_retention, NoRetention for None
    status_json,     \* the status JSON file: "none", "ok", "error"
    deployment,      \* how the agent is used: the snapshot options its
                     \* invocations are given and how many executions are made
    call             \* a call of a library function on its own: its
                     \* arguments and, once it has returned, its result

vars == <<disk, state_file, heartbeat, pc, mode, patch_files, history_limit,
          max_iterations, iteration, exc, raised, attempts, run,
          snapshots, now, snapshots_enabled, snapshot_retention, status_json,
          deployment, call>>

\* The variables of the snapshot directory and of the outputs that the
\* steps outside run_once leave alone.
snapshot_vars == <<snapshots, now>>
option_vars == <<snapshots_enabled, snapshot_retention>>

\* ------------------------------------------------------------- helpers
Range(s) == {s[i] : i \in DOMAIN s}

\* The permutations of a finite set, as sequences: the orders in which a
\* Python set of strings can be iterated.
Perms(S) == {s \in [1..Cardinality(S) -> S] : \A i, j \in DOMAIN s : i # j => s[i] # s[j]}

\* dict.get(name): the value, or None when the key is absent.
Get(d, name) == IF name \in DOMAIN d THEN d[name] ELSE None

\* The empty dict.
EmptyDict == [n \in {} |-> None]

\* list[:k], the first k elements, in the place of list[-k:].
Tail_k_KeepsOldest(s, k) == IF Len(s) <= k THEN s ELSE SubSeq(s, 1, k)

\* list[-k:] for k > 0
Tail_k(s, k) == IF Len(s) <= k THEN s ELSE SubSeq(s, Len(s) - k + 1, Len(s))

\* merge_patch_sources: defaults first, then the others, duplicates dropped.
RECURSIVE append_unique(_, _)
append_unique(combined, rest) ==
    IF rest = <<>> THEN combined
    ELSE IF Head(rest) \in Range(combined)
         THEN append_unique(combined, Tail(rest))
         ELSE append_unique(Append(combined, Head(rest)), Tail(rest))

merge_patch_sources(defaults, env_files, cli_files) ==
    append_unique(<<>>, defaults \o env_files \o cli_files)

\* hash_file: the SHA-256 hex digest of the content.
hash_file(content) == "sha256:" \o ToString(content)

\* ------------------------------------------------------------- AgentState
\* AgentState(): the defaults of the dataclass.
FreshState == [digests |-> EmptyDict, history |-> <<>>, next_run_id |-> 1]

\* The state file: absent, in the legacy flat shape (a bare digest map), or
\* in the shape save() writes.
AbsentFile == [shape |-> "absent", digests |-> EmptyDict, history |-> <<>>, next_run_id |-> 1]

FlatFile(digests) ==
    [shape |-> "flat", digests |-> digests, history |-> <<>>, next_run_id |-> 1]

\* The state file after open("w") and before json.dump has written the
\* document: empty or cut short, not parseable.
TruncatedFile ==
    [shape |-> "malformed", digests |-> EmptyDict, history |-> <<>>, next_run_id |-> 1]

\* json.load returns, and does not raise, on a file of this content.
Loadable(file) == file.shape # "malformed"

\* The digest maps over the tracked names.
DigestMaps ==
    UNION {[S -> {hash_file(c) : c \in Contents}] : S \in SUBSET Names}

RECURSIVE MaxRunId(_)
MaxRunId(history) ==
    IF history = <<>> THEN 0
    ELSE LET m == MaxRunId(Tail(history))
         IN  IF Head(history).run_id > m THEN Head(history).run_id ELSE m

\* The records AgentState.load makes of the entries of "history" (lines
\* 307-325): run_id is entry.get("run_id") or entry.get("id"), and a run_id
\* that is None or not positive becomes the 1-based index of the entry.  A
\* run_id or id of 0 stands for one that is null or not there.
LoadHistory(raw_history) ==
    [index \in DOMAIN raw_history |->
        LET entry == raw_history[index]
            run_id == IF entry.run_id # 0 THEN entry.run_id
                      ELSE IF "id" \in DOMAIN entry THEN entry.id ELSE 0
        IN  [run_id |-> IF run_id <= 0 THEN index ELSE run_id,
             changed_files |-> entry.changed_files,
             missing_files |-> entry.missing_files,
             error |-> entry.error,
             change_details |-> entry.change_details,
             change_summary |-> entry.change_summary]]

\* AgentState.load that takes a legacy flat mapping for no state at all.
Load_FlatAsFresh(file) ==
    IF file.shape \in {"absent", "flat"} THEN FreshState
    ELSE LET history == LoadHistory(file.history)
         IN  [digests |-> file.digests,
              history |-> history,
              next_run_id |-> IF file.next_run_id # 0 THEN file.next_run_id
                              ELSE MaxRunId(history) + 1]

\* AgentState.load
Load(file) ==
    IF file.shape = "absent" THEN FreshState
    ELSE IF file.shape = "flat" THEN [FreshState EXCEPT !.digests = file.digests]
    ELSE LET history == LoadHistory(file.history)
         IN  [digests |-> file.digests,
              history |-> history,
              next_run_id |-> IF file.next_run_id # 0 THEN file.next_run_id
                              ELSE MaxRunId(history) + 1]

\* AgentState.save
Save(state, limit) ==
    [shape |-> "current",
     digests |-> state.digests,
     history |-> IF limit # NoLimit THEN Tail_k(state.history, limit) ELSE state.history,
     next_run_id |-> state.next_run_id]

RunRecord(run_id, changed, missing, error, details, summary) ==
    [run_id |-> run_id, changed_files |-> changed, missing_files |-> missing,
     error |-> error, change_details |-> details, change_summary |-> summary]

\* record_run taking the next run_id from the length of the kept history.
record_run_NextFromLength(state, changed, missing, limit, error, details, summary) ==
    LET appended == Append(state.history,
                           RunRecord(state.next_run_id, changed, missing, error, details, summary))
        kept == IF limit # NoLimit /\ Len(appended) > limit
                THEN Tail_k(appended, limit) ELSE appended
    IN  [digests |-> state.digests,
         history |-> kept,
         next_run_id |-> Len(kept) + 1]

\* AgentState.record_run
record_run(state, changed, missing, limit, error, details, summary) ==
    LET appended == Append(state.history,
                           RunRecord(state.next_run_id, changed, missing, error, details, summary))
    IN  [digests |-> state.digests,
         history |-> IF limit # NoLimit /\ Len(appended) > limit
                     THEN Tail_k(appended, limit) ELSE appended,
         next_run_id |-> state.next_run_id + 1]

\* ------------------------------------------------------------- detection
\* compute_patch_digests: digests of the tracked files that exist, and the
\* tracked names that do not, in tracked order.
compute_patch_digests(files, d) ==
    [digests |-> [n \in {m \in Range(files) : d[m] # 0} |-> hash_file(d[n])],
     missing |-> SelectSeq(files, LAMBDA n : d[n] = 0)]

\* detect_changes without its `removed` branch (lines 415-416).
StatusOf_NoRemovedBranch(previous_digest, current_digest, in_missing) ==
    IF in_missing THEN "missing"
    ELSE IF previous_digest = None THEN "added"
    ELSE "modified"

\* The status detect_changes gives a name it does not skip.
StatusOf(previous_digest, current_digest, in_missing) ==
    IF in_missing THEN "missing"
    ELSE IF previous_digest = None THEN "added"
    ELSE IF current_digest = None THEN "removed"
    ELSE "modified"

\* The names detect_changes does not skip.
IsUpdated(prev_digests, current, missing_set, name) ==
    ~(Get(prev_digests, name) = Get(current, name) /\ name \notin missing_set)

\* detect_changes; order is the iteration order of the set `names`.
detect_changes(prev_digests, current, missing, order) ==
    LET missing_set == Range(missing)
        upd(n) == IsUpdated(prev_digests, current, missing_set, n)
    IN  [updated |-> SelectSeq(order, upd),
         details |-> [n \in {m \in Range(order) : upd(m)} |->
                        [previous_digest |-> Get(prev_digests, n),
                         current_digest |-> Get(current, n),
                         status |-> StatusOf(Get(prev_digests, n), Get(current, n),
                                             n \in missing_set)]]]

DetectNames(prev_digests, current, missing) ==
    DOMAIN prev_digests \cup DOMAIN current \cup Range(missing)

\* summarize_change_details: number of names per status.
summarize_change_details(details) ==
    [s \in {details[n].status : n \in DOMAIN details} |->
        Cardinality({n \in DOMAIN details : details[n].status = s})]

\* run_once line 1346-1355: missing names popped, then update(current).
AdvanceDigests(digests, current, missing) ==
    [n \in (DOMAIN digests \ Range(missing)) \cup DOMAIN current |->
        IF n \in DOMAIN current THEN current[n] ELSE digests[n]]

\* ------------------------------------------------------------- heartbeat
\* No heartbeat file yet.
NoHeartbeat == [status |-> "none", message |-> None]

\* write_heartbeat that writes "ok" whatever `success` is.
write_heartbeat_AlwaysOk(success, message) ==
    [status |-> "ok", message |-> message]

\* write_heartbeat: the status and the message of the first line it writes.
write_heartbeat(success, message) ==
    [status |-> IF success THEN "ok" ELSE "error", message |-> message]

\* ------------------------------------------------------------- snapshots
\* sorted(): the snapshot directories by name, which is by timestamp.
\* sorted() giving the newest name first.
RECURSIVE Sorted_NewestFirst(_)
Sorted_NewestFirst(S) ==
    IF S = {} THEN <<>>
    ELSE LET m == CHOOSE x \in S : \A y \in S : x >= y
         IN  <<m>> \o Sorted_NewestFirst(S \ {m})

RECURSIVE Sorted(_)
Sorted(S) ==
    IF S = {} THEN <<>>
    ELSE LET m == CHOOSE x \in S : \A y \in S : x <= y
         IN  <<m>> \o Sorted(S \ {m})

\* The snapshot directory without the directories in `removed`.
Without(dirs, removed) == [t \in DOMAIN dirs \ Range(removed) |-> dirs[t]]

\* prune_snapshots with a slice that leaves one directory more.
prune_snapshots_KeepsOneMore(dirs, retention) ==
    IF retention <= NoRetention THEN <<>>
    ELSE LET sorted_snapshots == Sorted(DOMAIN dirs)
         IN  IF Len(sorted_snapshots) <= retention + 1 THEN <<>>
             ELSE SubSeq(sorted_snapshots, 1, Len(sorted_snapshots) - retention - 1)

\* prune_snapshots with the slice snapshots[-retention:]: it removes the
\* newest directories.
prune_snapshots_RemovesNewest(dirs, retention) ==
    IF retention <= NoRetention THEN <<>>
    ELSE LET sorted_snapshots == Sorted(DOMAIN dirs)
         IN  IF Len(sorted_snapshots) <= retention THEN <<>>
             ELSE SubSeq(sorted_snapshots, Len(sorted_snapshots) - retention + 1,
                         Len(sorted_snapshots))

\* prune_snapshots: the directories it removes, all but the newest
\* `retention`.
prune_snapshots(dirs, retention) ==
    IF retention <= NoRetention THEN <<>>
    ELSE LET sorted_snapshots == Sorted(DOMAIN dirs)
         IN  IF Len(sorted_snapshots) <= retention THEN <<>>
             ELSE SubSeq(sorted_snapshots, 1, Len(sorted_snapshots) - retention)

\* snapshot_patches: the snapshot directory after the call, the path and
\* the pruned directories it returns.  `timestamp` is what time.strftime
\* gives; mkdir(exist_ok=True) reuses a directory of that name.
snapshot_patches(files, dirs, changed_files, retention, enabled, timestamp, d) ==
    IF ~enabled \/ changed_files = <<>>
    THEN LET removed == prune_snapshots(dirs, retention)
         IN  [snapshots |-> Without(dirs, removed), snapshot_path |-> NoSnapshot,
              pruned |-> removed]
    ELSE LET copied == {n \in Range(changed_files) \cap Range(files) : d[n] # 0}
             before == IF timestamp \in DOMAIN dirs THEN dirs[timestamp] ELSE EmptyDict
             destination == [n \in DOMAIN before \cup copied |->
                               IF n \in copied THEN d[n] ELSE before[n]]
             created == [t \in DOMAIN dirs \cup {timestamp} |->
                           IF t = timestamp THEN destination ELSE dirs[t]]
             pruned == prune_snapshots(created, retention)
         IN  [snapshots |-> Without(created, pruned), snapshot_path |-> timestamp,
              pruned |-> pruned]

\* apply_plan: both of its branches call snapshot_patches.
apply_plan(files, dirs, changed_files, retention, enabled, timestamp, d) ==
    snapshot_patches(files, dirs, changed_files, retention, enabled, timestamp, d)

\* ------------------------------------------------------------- run_once
\* What the latest call of run_once saw and computed: how far it got
\* ("none", "call", "hashing", "saved"), the state it loaded and the
\* results of compute_patch_digests and detect_changes.
NoRun == [reached |-> "none", before_next_run_id |-> 1, tracked |-> <<>>,
          prev |-> EmptyDict, current |-> EmptyDict, missing |-> <<>>,
          changed |-> <<>>, change_details |-> EmptyDict,
          snapshot_path |-> NoSnapshot, pruned |-> <<>>]

\* Messages of the exceptions the calls of this module raise.
ErrHash == "OSError: hash_file"
ErrFileNotFound == "FileNotFoundError: hash_file"
ErrJSONDecode == "json.JSONDecodeError: AgentState.load"
Killed == "killed"
ErrKeyboardInterrupt == "KeyboardInterrupt"
LoopInterruptedMessage == "loop interrupted"
ErrRenderReport == "render_report() takes 32 positional arguments but 33 were given"
ErrRunOnceCall == "run_once() missing 1 required positional argument: 'max_iterations'"
ErrStatusSingle == "render_status_json() got multiple values for argument 'snapshot_path'"
ErrStatusLoop == "render_failure_status() missing 1 required positional argument: 'log_file_enabled'"

\* run_once up to state.save (lines 1340-1365): the state it persists.
RunOnceState(file, files, d, limit, order) ==
    LET state == Load(file)
        cd == compute_patch_digests(files, d)
        det == detect_changes(state.digests, cd.digests, cd.missing, order)
        advanced == [state EXCEPT !.digests = AdvanceDigests(@, cd.digests, cd.missing)]
    IN  record_run(advanced, det.updated, cd.missing, limit, None, det.details,
                   summarize_change_details(det.details))

\* No library function is called on its own.
NoCall == [function |-> "none"]

\* ------------------------------------------------------------- the system
\* The snapshot options main() passes to run_once: --disable-snapshots and
\* --snapshot-retention.
DisabledOnly == {[enabled |-> FALSE, retention |-> NoRetention]}
AllSnapshotOptions == [enabled : BOOLEAN, retention : 0..MaxRetention]

\* The snapshot directory at the start: empty.
NoSnapshots == {EmptyDict}

\* The snapshot directory at the start: empty, or with the directory of an
\* earlier run of this second that found no file to copy into it or was
\* stopped before it copied one (snapshot_patches lines 483-485).
EarlierSnapshot == {EmptyDict, [t \in {1} |-> EmptyDict]}

\* No --patch on the command line: the default files only.
DefaultsOnly == {<<>>}

\* The names of the default files: without --patch the agent reads no
\* other file.
DefaultNames == Range(PATCH_FILENAMES)

\* The first invocation finds the files that the base directory may hold in
\* any state and the state file as `files` allows; `how` is the way the
\* agent is used: the snapshot options and the --patch lists its
\* invocations are given, the number of executions, and the names of the
\* files the base directory may hold.
InitWith(files, how) ==
    /\ disk \in [Names -> 0..MaxContent]
    /\ \A n \in Names \ how.files : disk[n] = 0
    /\ state_file \in files
    /\ heartbeat = NoHeartbeat
    /\ pc = "idle"
    /\ mode = "single"
    /\ patch_files = <<>>
    /\ history_limit \in 0..MaxHistoryLimit
    /\ max_iterations = 0
    /\ iteration = 0
    /\ exc = None
    /\ raised = None
    /\ attempts = 0
    /\ run = NoRun
    /\ snapshots \in how.dirs
    /\ now = 1
    /\ snapshots_enabled = FALSE
    /\ snapshot_retention = NoRetention
    /\ status_json = "none"
    /\ deployment = how
    /\ call = NoCall

\* No state file yet; snapshots are disabled.
Init == InitWith({AbsentFile}, [options |-> DisabledOnly, executions |-> MaxRuns, cli |-> DefaultsOnly, files |-> DefaultNames, dirs |-> NoSnapshots])

\* A state file left by the first version of the agent: a flat digest map.
InitFlat ==
    InitWith({FlatFile(d) : d \in DigestMaps},
             [options |-> DisabledOnly, executions |-> MaxRuns, cli |-> DefaultsOnly, files |-> DefaultNames, dirs |-> NoSnapshots])

\* No state file yet; two executions, each given any snapshot options, with
\* a history limit of one record.  With the directory an earlier run may
\* have left, that is enough for a snapshot directory to be created,
\* written again and pruned, and for a run that creates none to find more
\* directories than the retention it is given.
InitSnapshots ==
    /\ InitWith({AbsentFile},
                [options |-> AllSnapshotOptions, executions |-> 2, cli |-> DefaultsOnly,
                 files |-> DefaultNames, dirs |-> EarlierSnapshot])
    /\ history_limit = 1

\* The first execution of this version: no state file, or a flat one.
InitUpgrade ==
    InitWith({AbsentFile} \cup {FlatFile(d) : d \in DigestMaps},
             [options |-> DisabledOnly, executions |-> 1, cli |-> DefaultsOnly, files |-> DefaultNames, dirs |-> NoSnapshots])

\* The tracked files change on disk between two invocations or iterations.
FileChange ==
    /\ pc \in {"idle", "exited"}
    /\ \E n \in deployment.files, c \in 0..MaxContent :
          /\ disk[n] # c
          /\ disk' = [disk EXCEPT ![n] = c]
    /\ UNCHANGED <<state_file, heartbeat, pc, mode, patch_files,
                   history_limit, max_iterations, iteration, exc, raised, attempts, run,
                   snapshot_vars, option_vars, status_json, deployment, call>>

\* main() up to the choice of the mode: the arguments are parsed and the
\* tracked files merged.
StartMain(loop, cli, maxit) ==
    /\ pc \in {"idle", "exited"}
    /\ attempts < deployment.executions
    /\ mode' = IF loop THEN "loop" ELSE "single"
    /\ patch_files' = merge_patch_sources(PATCH_FILENAMES, <<>>, cli)
    /\ max_iterations' = maxit
    /\ iteration' = 0
    /\ exc' = None
    /\ raised' = None
    /\ \E opt \in deployment.options :
          /\ snapshots_enabled' = opt.enabled
          /\ snapshot_retention' = opt.retention
    /\ UNCHANGED <<disk, state_file, heartbeat, history_limit,
                   attempts, run, snapshot_vars, status_json, deployment, call>>

\* main() with --loop: the loop is entered.
MainLoop ==
    /\ \E cli \in deployment.cli, maxit \in {0, MaxIterations} :
          StartMain(TRUE, cli, maxit)
    /\ pc' = "running"

\* main() without --loop and without --max-iterations: the single run.
MainSingle ==
    /\ \E cli \in deployment.cli : StartMain(FALSE, cli, 0)
    /\ pc' = "running"

\* main() without --loop but with --max-iterations (line 1989): a log line
\* and nothing else.
MainIgnoreMaxIterations ==
    /\ \E cli \in deployment.cli : StartMain(FALSE, cli, MaxIterations)
    /\ pc' = "exited"

\* The locals of a call of run_once that raised while hashing.
RaisedWhileHashing ==
    [NoRun EXCEPT !.reached = "hashing",
                  !.before_next_run_id = Load(state_file).next_run_id,
                  !.tracked = patch_files,
                  !.prev = Load(state_file).digests]

\* The single run, with an I/O error while hashing a tracked file: run_once
\* raises before it touches the state.
RunOnceHashFails ==
    /\ pc = "running" /\ mode = "single" /\ Loadable(state_file)
    /\ \E n \in Range(patch_files) : disk[n] # 0
    /\ exc' = ErrHash
    /\ pc' = "handler"
    /\ attempts' = attempts + 1
    /\ run' = RaisedWhileHashing
    /\ UNCHANGED <<disk, state_file, heartbeat, mode, patch_files, history_limit,
                   max_iterations, iteration, raised,
                   snapshot_vars, option_vars, status_json, deployment, call>>

\* run_once from its first line to state.save (lines 1340-1365): detection,
\* apply_plan and the write of the state file.  `interrupted` says that the
\* process is killed inside save(), after open("w") and before the document
\* is written.
RunOnceToSave(interrupted) ==
    LET state == Load(state_file)
        cd == compute_patch_digests(patch_files, disk)
    IN  \E order \in Perms(DetectNames(state.digests, cd.digests, cd.missing)) :
          LET det == detect_changes(state.digests, cd.digests, cd.missing, order)
          IN  \E timestamp \in (IF snapshots_enabled /\ det.updated # <<>>
                               THEN now..MaxClock ELSE {now}) :
                LET plan == apply_plan(patch_files, snapshots, det.updated,
                                       snapshot_retention, snapshots_enabled,
                                       timestamp, disk)
                IN  /\ snapshots' = plan.snapshots
                    /\ now' = timestamp
                    /\ state_file' =
                          IF interrupted THEN TruncatedFile
                          ELSE Save(RunOnceState(state_file, patch_files, disk,
                                                 history_limit, order), history_limit)
                    /\ run' = [reached |-> IF interrupted THEN "writing" ELSE "saved",
                               before_next_run_id |-> state.next_run_id,
                               tracked |-> patch_files, prev |-> state.digests,
                               current |-> cd.digests, missing |-> cd.missing,
                               changed |-> det.updated, change_details |-> det.details,
                               snapshot_path |-> plan.snapshot_path,
                               pruned |-> plan.pruned]

\* The single run without an I/O error: run_once persists the state with the
\* record of the run, and its call of render_report raises a TypeError.
RunOnceSaves ==
    /\ pc = "running" /\ mode = "single" /\ Loadable(state_file)
    /\ RunOnceToSave(FALSE)
    /\ exc' = ErrRenderReport
    /\ pc' = "handler"
    /\ attempts' = attempts + 1
    /\ UNCHANGED <<disk, heartbeat, mode, patch_files, history_limit,
                   max_iterations, iteration, raised,
                   option_vars, status_json, deployment, call>>

\* One iteration of the loop: the call of run_once (line 1843) passes 21 of
\* the 22 arguments and raises a TypeError before run_once starts.
LoopIteration ==
    /\ pc = "running" /\ mode = "loop"
    /\ iteration' = iteration + 1
    /\ exc' = ErrRunOnceCall
    /\ pc' = "handler"
    /\ attempts' = attempts + 1
    /\ run' = IF Loadable(state_file)
              THEN [RaisedWhileHashing EXCEPT !.reached = "call"]
              ELSE [NoRun EXCEPT !.reached = "call", !.tracked = patch_files]
    /\ UNCHANGED <<disk, state_file, heartbeat, mode, patch_files, history_limit,
                   max_iterations, raised,
                   snapshot_vars, option_vars, status_json, deployment, call>>

\* The except block of main() (lines 1866-1934 and 2017-2085): the failure is
\* recorded and persisted, the failure heartbeat is written, and
\* render_failure_status raises a TypeError that leaves main() before the
\* status JSON is written.
FailureHandler ==
    /\ pc = "handler" /\ Loadable(state_file)
    /\ LET failure_state == record_run(Load(state_file), <<>>, <<>>, history_limit,
                                       exc, EmptyDict, EmptyDict)
       IN  state_file' = Save(failure_state, history_limit)
    /\ heartbeat' = write_heartbeat(FALSE, exc)
    /\ raised' = IF mode = "loop" THEN ErrStatusLoop ELSE ErrStatusSingle
    /\ pc' = "exited"
    /\ UNCHANGED <<disk, mode, patch_files, history_limit,
                   max_iterations, iteration, exc, attempts, run,
                   snapshot_vars, option_vars, status_json, deployment, call>>

Next ==
    \/ FileChange
    \/ MainLoop
    \/ MainSingle
    \/ MainIgnoreMaxIterations
    \/ RunOnceHashFails
    \/ RunOnceSaves
    \/ LoopIteration
    \/ FailureHandler

\* ------------------------------------------------------------- interference
\* The process is killed while save() writes the state file in run_once:
\* open("w") has emptied the file and the document is not written.
SaveInterrupted ==
    /\ pc = "running" /\ mode = "single" /\ Loadable(state_file)
    /\ RunOnceToSave(TRUE)
    /\ exc' = None
    /\ raised' = Killed
    /\ pc' = "exited"
    /\ attempts' = attempts + 1
    /\ UNCHANGED <<disk, heartbeat, mode, patch_files, history_limit,
                   max_iterations, iteration,
                   option_vars, status_json, deployment, call>>

\* A tracked file is deleted after compute_patch_digests saw that it exists
\* (line 389) and before hash_file opens it (line 392): open() raises.
RunOnceFileVanishes ==
    /\ pc = "running" /\ mode = "single" /\ Loadable(state_file)
    /\ \E n \in Range(patch_files) :
          /\ disk[n] # 0
          /\ disk' = [disk EXCEPT ![n] = 0]
    /\ exc' = ErrFileNotFound
    /\ pc' = "handler"
    /\ attempts' = attempts + 1
    /\ run' = RaisedWhileHashing
    /\ UNCHANGED <<state_file, heartbeat, mode, patch_files, history_limit,
                   max_iterations, iteration, raised,
                   snapshot_vars, option_vars, status_json, deployment, call>>

\* The single run on a state file that json.load cannot parse: run_once
\* raises in AgentState.load (line 1341).
RunOnceLoadFails ==
    /\ pc = "running" /\ mode = "single" /\ ~Loadable(state_file)
    /\ exc' = ErrJSONDecode
    /\ pc' = "handler"
    /\ attempts' = attempts + 1
    /\ run' = [NoRun EXCEPT !.reached = "load", !.tracked = patch_files]
    /\ UNCHANGED <<disk, state_file, heartbeat, mode, patch_files, history_limit,
                   max_iterations, iteration, raised,
                   snapshot_vars, option_vars, status_json, deployment, call>>

\* The except block of main() on such a state file: its own
\* AgentState.load (lines 1868 and 2019) raises and leaves main().
FailureHandlerLoadFails ==
    /\ pc = "handler" /\ ~Loadable(state_file)
    /\ raised' = ErrJSONDecode
    /\ pc' = "exited"
    /\ UNCHANGED <<disk, state_file, heartbeat, mode, patch_files, history_limit,
                   max_iterations, iteration, exc, attempts, run,
                   snapshot_vars, option_vars, status_json, deployment, call>>

\* The agent in an environment that deletes tracked files and kills the
\* process while it runs.
NextFaults ==
    \/ Next
    \/ SaveInterrupted
    \/ RunOnceFileVanishes
    \/ RunOnceLoadFails
    \/ FailureHandlerLoadFails

\* ------------------------------------------------------------- interrupts
\* Two executions in an environment that also interrupts the loop: the one
\* that is interrupted and the one after it.
InitInterrupts ==
    InitWith({AbsentFile}, [options |-> DisabledOnly, executions |-> 2, cli |-> DefaultsOnly, files |-> DefaultNames, dirs |-> NoSnapshots])

\* except KeyboardInterrupt (lines 1959-1988): the failure heartbeat is
\* written and main() returns.
InterruptHandler ==
    /\ exc' = ErrKeyboardInterrupt
    /\ heartbeat' = write_heartbeat(FALSE, LoopInterruptedMessage)
    /\ raised' = None
    /\ pc' = "exited"

\* A KeyboardInterrupt arrives in the loop before run_once is called, before
\* or after the increment of the iteration counter.
InterruptBeforeCall ==
    /\ pc = "running" /\ mode = "loop"
    /\ iteration' \in {iteration, iteration + 1}
    /\ attempts' = attempts + 1
    /\ InterruptHandler
    /\ UNCHANGED <<disk, state_file, mode, patch_files, history_limit,
                   max_iterations, run,
                   snapshot_vars, option_vars, status_json, deployment, call>>

\* A KeyboardInterrupt arrives while the except block of the loop (lines
\* 1866-1934) handles the exception of the iteration: before it writes the
\* state file, inside save() after open("w"), or after save() returned.
\* `except Exception` does not catch it.
InterruptInHandler ==
    /\ pc = "handler" /\ mode = "loop"
    /\ LET failure_state == record_run(Load(state_file), <<>>, <<>>, history_limit,
                                       exc, EmptyDict, EmptyDict)
       IN  \/ state_file' = state_file
           \/ Loadable(state_file) /\ state_file' = TruncatedFile
           \/ Loadable(state_file) /\ state_file' = Save(failure_state, history_limit)
    /\ InterruptHandler
    /\ UNCHANGED <<disk, mode, patch_files, history_limit,
                   max_iterations, iteration, attempts, run,
                   snapshot_vars, option_vars, status_json, deployment, call>>

NextInterrupts ==
    \/ NextFaults
    \/ InterruptBeforeCall
    \/ InterruptInHandler

Spec == Init /\ [][Next]_vars

SpecInterrupts == InitInterrupts /\ [][NextInterrupts]_vars

SpecFlat == InitFlat /\ [][Next]_vars

SpecSnapshots == InitSnapshots /\ [][Next]_vars

SpecUpgrade == InitUpgrade /\ [][Next]_vars

SpecFaults == Init /\ [][NextFaults]_vars

\* No state file yet; two executions, each with or without --patch, with a
\* history limit of one record: enough for a name to be tracked and then
\* dropped.  The base directory holds the first default file and the file
\* of --patch at most: the second default file is missing throughout.
InitCli ==
    /\ InitWith({AbsentFile},
                [options |-> DisabledOnly, executions |-> 2, cli |-> CliPatchFiles,
                 files |-> {PATCH_FILENAMES[1], "C"}, dirs |-> NoSnapshots])
    /\ history_limit = 1

SpecCli == InitCli /\ [][Next]_vars

\* ------------------------------------------------------------- copy faults
\* Snapshots enabled and unpruned, the only options under which apply_plan
\* copies files and nothing else.
EnabledOnly == {[enabled |-> TRUE, retention |-> NoRetention]}

\* Two executions with snapshots enabled, in an environment where the
\* snapshot directory may refuse a write: a run that fails in apply_plan
\* and the run after it.  There is no state file, or one of the first
\* version with a digest of the first default file, so that the failing
\* run can find a file added or modified.
InitCopyFaults ==
    /\ InitWith({AbsentFile, FlatFile([n \in {PATCH_FILENAMES[1]} |-> hash_file(1)])},
                [options |-> EnabledOnly, executions |-> 2, cli |-> DefaultsOnly, files |-> DefaultNames, dirs |-> NoSnapshots])
    /\ history_limit = 1

ErrCopy == "OSError: snapshot_patches"

\* The content of a copy that shutil.copy2 opened and did not finish: a
\* beginning of the source, the content of no tracked file.
PartialCopy == -1

\* The state file with the digests of the failing run written to it.
StateFileWhenPlanRaises_DigestsSaved(file, files, d, limit) ==
    LET cd == compute_patch_digests(files, d)
    IN  Save([Load(file) EXCEPT !.digests = AdvanceDigests(@, cd.digests, cd.missing)],
             limit)

\* run_once writes the state file in its line 1365 only: when apply_plan
\* raises, the digests computed from `files` on the disk `d` go with the
\* AgentState object and the file stays as it was.
StateFileWhenPlanRaises(file, files, d, limit) == file

\* The single run, with an I/O error in snapshot_patches: mkdir raises
\* (k = 0), or the copy of the k-th changed file does, after the files
\* before it were copied.  shutil.copy2 is copyfile and then copystat: the
\* failing copy raises before it opens its destination ("unopened"), while
\* it writes, leaving a partial copy ("partial"), or in copystat, with the
\* whole content written ("complete").
RunOncePlanFails ==
    /\ pc = "running" /\ mode = "single" /\ Loadable(state_file)
    /\ snapshots_enabled
    /\ LET state == Load(state_file)
           cd == compute_patch_digests(patch_files, disk)
       IN  \E order \in Perms(DetectNames(state.digests, cd.digests, cd.missing)) :
             LET det == detect_changes(state.digests, cd.digests, cd.missing, order)
             IN  /\ det.updated # <<>>
                 /\ \E timestamp \in now..MaxClock, k \in 0..Len(det.updated),
                        outcome \in {"unopened", "partial", "complete"} :
                      LET copied == {n \in Range(SubSeq(det.updated, 1, k - 1))
                                             \cap Range(patch_files) : disk[n] # 0}
                          failing == IF k > 0 /\ outcome # "unopened"
                                     THEN {det.updated[k]} ELSE {}
                          before == IF timestamp \in DOMAIN snapshots
                                    THEN snapshots[timestamp] ELSE EmptyDict
                          destination == [n \in DOMAIN before \cup copied \cup failing |->
                                            IF n \in failing
                                            THEN IF outcome = "partial"
                                                 THEN PartialCopy ELSE disk[n]
                                            ELSE IF n \in copied THEN disk[n]
                                            ELSE before[n]]
                      IN  /\ k = 0 => outcome = "unopened"
                          /\ k > 0 => /\ det.updated[k] \in Range(patch_files)
                                      /\ disk[det.updated[k]] # 0
                          /\ snapshots' =
                                IF k = 0 THEN snapshots
                                ELSE [t \in DOMAIN snapshots \cup {timestamp} |->
                                        IF t = timestamp THEN destination
                                        ELSE snapshots[t]]
                          /\ now' = timestamp
                          /\ run' = [reached |-> "planning",
                                     before_next_run_id |-> state.next_run_id,
                                     tracked |-> patch_files, prev |-> state.digests,
                                     current |-> cd.digests, missing |-> cd.missing,
                                     changed |-> det.updated,
                                     change_details |-> det.details,
                                     snapshot_path |-> NoSnapshot, pruned |-> <<>>]
    /\ state_file' = StateFileWhenPlanRaises(state_file, patch_files, disk, history_limit)
    /\ exc' = ErrCopy
    /\ pc' = "handler"
    /\ attempts' = attempts + 1
    /\ UNCHANGED <<disk, heartbeat, mode, patch_files, history_limit,
                   max_iterations, iteration, raised,
                   option_vars, status_json, deployment, call>>

NextCopyFaults ==
    \/ Next
    \/ RunOncePlanFails

SpecCopyFaults == InitCopyFaults /\ [][NextCopyFaults]_vars

\* ------------------------------------------------------------- patch_loader
\* JSON values: a string is its sequence of characters.
Null == [type |-> "null"]
Str(chars) == [type |-> "str", chars |-> chars]
Num(n) == [type |-> "int", n |-> n]
List(items) == [type |-> "list", items |-> items]

\* The characters of the keys of a patch.
KeyChars ==
    [patch_number |-> <<"p", "a", "t", "c", "h", "_", "n", "u", "m", "b", "e", "r">>,
     source_file |-> <<"s", "o", "u", "r", "c", "e", "_", "f", "i", "l", "e">>,
     status |-> <<"s", "t", "a", "t", "u", "s">>,
     applies_to |-> <<"a", "p", "p", "l", "i", "e", "s", "_", "t", "o">>,
     system_tags |-> <<"s", "y", "s", "t", "e", "m", "_", "t", "a", "g", "s">>]

\* A patch is a dict: its items in insertion order.
Item(key, value) == [key |-> key, value |-> value]

\* dict.get(key): the value, or None when the key is absent.
PatchGet(patch, key) ==
    IF \E i \in DOMAIN patch : patch[i].key = key
    THEN patch[CHOOSE i \in DOMAIN patch : patch[i].key = key].value
    ELSE Null

\* str.lower on the characters the inputs are written in.
LowerChar(c) == IF c = "A" THEN "a" ELSE IF c = "B" THEN "b" ELSE c
Lower(chars) == [i \in DOMAIN chars |-> LowerChar(chars[i])]

\* `needle in hay` for two strings.
Contains(needle, hay) ==
    \E i \in 0..(Len(hay) - Len(needle)) : SubSeq(hay, i + 1, i + Len(needle)) = needle

\* json.dumps(value, ensure_ascii=False) of a string, an integer of one
\* digit, None or a list of them.
RECURSIVE dumps_items(_)
dumps_value(value) ==
    IF value.type = "str" THEN <<"\"">> \o value.chars \o <<"\"">>
    ELSE IF value.type = "int" THEN <<ToString(value.n)>>
    ELSE IF value.type = "list" THEN <<"[">> \o dumps_items(value.items) \o <<"]">>
    ELSE <<"n", "u", "l", "l">>

dumps_items(items) ==
    IF items = <<>> THEN <<>>
    ELSE LET first == Head(items)
             rendered == IF first.type = "str" THEN <<"\"">> \o first.chars \o <<"\"">>
                         ELSE IF first.type = "int" THEN <<ToString(first.n)>>
                         ELSE <<"n", "u", "l", "l">>
         IN  IF Tail(items) = <<>> THEN rendered
             ELSE rendered \o <<",", " ">> \o dumps_items(Tail(items))

\* json.dumps of a patch.
RECURSIVE dumps_pairs(_)
dumps_pairs(patch) ==
    IF patch = <<>> THEN <<>>
    ELSE LET pair == <<"\"">> \o KeyChars[Head(patch).key] \o <<"\"", ":", " ">>
                     \o dumps_value(Head(patch).value)
         IN  IF Tail(patch) = <<>> THEN pair
             ELSE pair \o <<",", " ">> \o dumps_pairs(Tail(patch))

dumps(patch) == <<"{">> \o dumps_pairs(patch) \o <<"}">>

\* The truth value of an optional string argument: None and "" are false.
Truthy(arg) == arg.type = "str" /\ arg.chars # <<>>

\* string_entries with a bare string taken for no entry at all.
string_entries_ListsOnly(field) ==
    IF field.type = "list" THEN SelectSeq(field.items, LAMBDA entry : entry.type = "str")
    ELSE <<>>

\* The list filter_patches makes of an applies_to or system_tags field (lines
\* 256-262 and 267-273): a string alone, or the strings of a list.
string_entries(field) ==
    IF field.type = "str" THEN <<field>>
    ELSE IF field.type = "list"
         THEN SelectSeq(field.items, LAMBDA entry : entry.type = "str")
         ELSE <<>>

\* filter_patches.matches
matches(patch, query, min_patch, max_patch, source_file, applies_to, system_tag, status) ==
    LET number == PatchGet(patch, "patch_number")
        patch_status == PatchGet(patch, "status")
        applies_list == string_entries(PatchGet(patch, "applies_to"))
        tags == string_entries(PatchGet(patch, "system_tags"))
    IN  IF min_patch.type # "null" /\ (number.type = "null" \/ number.n < min_patch.n)
        THEN FALSE
        ELSE IF max_patch.type # "null" /\ (number.type = "null" \/ number.n > max_patch.n)
        THEN FALSE
        ELSE IF Truthy(source_file) /\ PatchGet(patch, "source_file") # source_file
        THEN FALSE
        ELSE IF Truthy(status)
                /\ (patch_status.type # "str"
                    \/ Lower(patch_status.chars) # Lower(status.chars))
        THEN FALSE
        ELSE IF Truthy(applies_to)
                /\ ~\E i \in DOMAIN applies_list :
                      Contains(Lower(applies_to.chars), Lower(applies_list[i].chars))
        THEN FALSE
        ELSE IF Truthy(system_tag)
                /\ ~\E i \in DOMAIN tags :
                      Lower(tags[i].chars) = Lower(system_tag.chars)
        THEN FALSE
        ELSE IF Truthy(query) /\ ~Contains(Lower(query.chars), Lower(dumps(patch)))
        THEN FALSE
        ELSE TRUE

\* filter_patches
filter_patches(patches, query, min_patch, max_patch, source_file, applies_to, system_tag, status) ==
    SelectSeq(patches, LAMBDA patch : matches(patch, query, min_patch, max_patch,
                                              source_file, applies_to, system_tag,
                                              status))

\* The patches the calls of filter_patches are made on: with and without a
\* number, with metadata as a string, as a list and of another type.
PatchPool ==
    {<<Item("patch_number", Num(1)), Item("source_file", Str(<<"a">>)),
       Item("status", Str(<<"A", "b">>)),
       Item("applies_to", List(<<Str(<<"A", "b">>), Num(7)>>)),
       Item("system_tags", List(<<Str(<<"b">>), Str(<<"a", "B">>)>>))>>,
     <<Item("patch_number", Num(2)), Item("source_file", Str(<<"b">>)),
       Item("status", Str(<<"b">>)),
       Item("applies_to", Str(<<"a", "b">>)),
       Item("system_tags", Str(<<"A", "b">>))>>,
     <<Item("patch_number", Num(3)), Item("source_file", Str(<<"a">>))>>,
     <<Item("source_file", Str(<<"a">>)), Item("status", Num(1)),
       Item("applies_to", Num(2)),
       Item("system_tags", List(<<Str(<<"b">>)>>))>>}

PatchLists == UNION {[1..n -> PatchPool] : n \in 0..MaxPatches}

\* The arguments of the calls: None, the empty string and values that some
\* patches match and others do not.
QueryArgs == {Null, Str(<<>>), Str(<<"a", "B">>), Str(<<"3">>)}
MinPatchArgs == {Null, Num(0), Num(2)}
MaxPatchArgs == {Null, Num(2)}
SourceFileArgs == {Null, Str(<<>>), Str(<<"a">>)}
StatusArgs == {Null, Str(<<>>), Str(<<"a", "B">>)}
AppliesToArgs == {Null, Str(<<"B">>)}
SystemTagArgs == {Null, Str(<<"A", "B">>)}

\* The variables of the agent, which a call of a library function on its
\* own leaves alone.
agent_vars == <<disk, state_file, heartbeat, pc, mode, patch_files, history_limit,
                max_iterations, iteration, exc, raised, attempts, run,
                snapshots, now, snapshots_enabled, snapshot_retention, status_json,
                deployment>>

\* The agent is not started.
AgentNotStarted ==
    /\ disk = [n \in Names |-> 0]
    /\ state_file = AbsentFile
    /\ heartbeat = NoHeartbeat
    /\ pc = "idle"
    /\ mode = "single"
    /\ patch_files = <<>>
    /\ history_limit = NoLimit
    /\ max_iterations = 0
    /\ iteration = 0
    /\ exc = None
    /\ raised = None
    /\ attempts = 0
    /\ run = NoRun
    /\ snapshots = EmptyDict
    /\ now = 1
    /\ snapshots_enabled = FALSE
    /\ snapshot_retention = NoRetention
    /\ status_json = "none"
    /\ deployment = [options |-> DisabledOnly, executions |-> 0, cli |-> DefaultsOnly, files |-> DefaultNames, dirs |-> NoSnapshots]

\* A call of filter_patches is about to be made.
InitFilter ==
    /\ AgentNotStarted
    /\ call \in [function : {"filter_patches"}, patches : PatchLists,
                 query : QueryArgs, min_patch : MinPatchArgs, max_patch : MaxPatchArgs,
                 source_file : SourceFileArgs, applies_to : AppliesToArgs,
                 system_tag : SystemTagArgs, status : StatusArgs,
                 returned : {FALSE}, result : {<<>>}]

\* The call of filter_patches returns.
FilterPatches ==
    /\ call.function = "filter_patches" /\ ~call.returned
    /\ call' = [call EXCEPT !.returned = TRUE,
                            !.result = filter_patches(call.patches, call.query,
                                           call.min_patch, call.max_patch,
                                           call.source_file, call.applies_to,
                                           call.system_tag, call.status)]
    /\ UNCHANGED agent_vars

SpecFilter == InitFilter /\ [][FilterPatches]_vars

\* The snapshot directories the calls of prune_snapshots are made on: any
\* directories named by the seconds of the clock, with any files in them.
SnapshotContents == UNION {[S -> Contents] : S \in SUBSET Range(PATCH_FILENAMES)}
SnapshotDirs == UNION {[T -> SnapshotContents] : T \in SUBSET (1..MaxClock)}

\* A call of prune_snapshots is about to be made, with a retention that is
\* negative, zero (or None) or positive.
InitPrune ==
    /\ AgentNotStarted
    /\ call \in [function : {"prune_snapshots"}, dirs : SnapshotDirs,
                 retention : (-1)..MaxRetention,
                 returned : {FALSE}, removed : {<<>>}, remaining : {EmptyDict}]

\* The call of prune_snapshots returns.
PruneSnapshots ==
    /\ call.function = "prune_snapshots" /\ ~call.returned
    /\ LET to_remove == prune_snapshots(call.dirs, call.retention)
       IN  call' = [call EXCEPT !.returned = TRUE,
                                !.removed = to_remove,
                                !.remaining = Without(call.dirs, to_remove)]
    /\ UNCHANGED agent_vars

SpecPrune == InitPrune /\ [][PruneSnapshots]_vars

\* ------------------------------------------------------------- properties
\* main() has ended after an execution attempt that raised.
AttemptFailed == pc = "exited" /\ exc # None

\* The step is a call of run_once that persisted a record without error.
SavedRunStep == pc = "running" /\ run'.reached = "saved" /\ attempts' = attempts + 1

\* The step is such a call and the call before it persisted one too.
ConsecutiveSavedRuns == run.reached = "saved" /\ SavedRunStep

HistoryRunIds(history) == [i \in DOMAIN history |-> history[i].run_id]

Errors(history) == {i \in DOMAIN history : history[i].error # None}

\* C1: from an absent state file, with the history limit unlimited or at
\* least N, after N execution attempts the persisted history holds exactly N
\* records whose run_id values are 1..N in append order.
C1_RunIdsOneToN ==
    (pc \in {"idle", "exited"} /\ (history_limit = NoLimit \/ history_limit >= attempts))
        => /\ Len(state_file.history) = attempts
           /\ HistoryRunIds(state_file.history) = [i \in 1..attempts |-> i]

\* C2: an execution attempt that fails, at whatever step, appends exactly
\* one RunRecord, which has error set and empty changed_files and
\* missing_files.
C2_FailureAppendsOneRecord ==
    AttemptFailed
        => /\ state_file.next_run_id = run.before_next_run_id + 1
           /\ state_file.history # <<>>
           /\ LET last == state_file.history[Len(state_file.history)]
              IN  /\ last.error # None
                  /\ last.changed_files = <<>>
                  /\ last.missing_files = <<>>

\* C3: when an execution attempt fails, the digest map persisted after it,
\* the failure record included, is the map persisted before it.
C3_FailureKeepsDigests ==
    (pc \in {"handler", "exited"} /\ exc # None) => state_file.digests = run.prev

\* C4: after a run that persisted its record without error, the persisted
\* digest map is the map computed in that run: its keys are the tracked
\* names whose file exists, and no name that is missing from disk or no
\* longer tracked is left in it.
C4_DigestMapReplaced ==
    (pc \in {"handler", "exited"} /\ run.reached = "saved")
        => /\ state_file.digests = run.current
           /\ DOMAIN state_file.digests = Range(run.tracked) \ Range(run.missing)

\* C5: a loop with --max-iterations 5 that starts from a fresh state and in
\* which exactly one iteration fails completes without raising and leaves
\* five RunRecords, exactly one of them with an error.  (Every iteration of
\* the loop that is entered fails, so the failed iterations are `iteration`.)
C5_LoopOfFiveIsolatesFailure ==
    (pc = "exited" /\ mode = "loop" /\ max_iterations = 5 /\ history_limit = NoLimit
        /\ attempts = iteration /\ iteration = 1)
        => /\ raised = None
           /\ Len(state_file.history) = 5
           /\ Cardinality(Errors(state_file.history)) = 1

\* C6: a loop with an iteration cap M >= 1 ends after exactly M attempted
\* iterations, whatever iterations fail.
C6_LoopEndsAtCap ==
    (pc = "exited" /\ mode = "loop" /\ max_iterations >= 1) => iteration = max_iterations

\* The tracked files are on disk as the latest call of run_once found them.
DiskAsInLatestRun ==
    LET cd == compute_patch_digests(patch_files, disk)
    IN  run.tracked = patch_files /\ run.current = cd.digests /\ run.missing = cd.missing

\* C7: of two consecutive runs with the same tracked files and the same
\* content on disk, the second reports no changed file and leaves the
\* persisted digest map as the first persisted it.
C7_Idempotence ==
    [][(ConsecutiveSavedRuns /\ DiskAsInLatestRun)
          => (run'.changed = <<>> /\ state_file'.digests = state_file.digests)]_vars

\* C8: detect_changes classifies a name with no prior digest and a current
\* digest as added, a name with a prior digest and no current digest as
\* missing when it is tracked and removed when it is not, a name with two
\* differing digests as modified, and leaves a name with two equal digests
\* out of the changed list and of the change details.
C8_Classification ==
    run.reached = "saved" =>
        /\ Range(run.changed) = DOMAIN run.change_details
        /\ \A n \in Names :
            LET p == Get(run.prev, n)
                c == Get(run.current, n)
                status == Get([m \in DOMAIN run.change_details |->
                                  run.change_details[m].status], n)
            IN  /\ (p = None /\ c # None) => status = "added"
                /\ (p # None /\ c = None /\ n \in Range(run.tracked)) => status = "missing"
                /\ (p # None /\ c = None /\ n \notin Range(run.tracked)) => status = "removed"
                /\ (p # None /\ c # None /\ p # c) => status = "modified"
                /\ (p # None /\ c # None /\ p = c) => status = None

\* C8's cases happen: one run classifies a name as removed and another as
\* modified.
C8_Witness ==
    /\ run.reached = "saved"
    /\ \E n, m \in DOMAIN run.change_details :
          /\ run.change_details[n].status = "removed"
          /\ run.change_details[m].status = "modified"

\* C9: a tracked file that is missing from disk in two consecutive runs is
\* not reported (changed_files, change_details) by the second.
C9_MissingReportedOnce ==
    [][ConsecutiveSavedRuns
          => \A n \in Range(run.missing) \cap Range(run'.missing) :
                /\ n \notin Range(run'.changed)
                /\ n \notin DOMAIN run'.change_details]_vars

\* C10: a tracked file that is seen again by the run after the one that saw
\* it go missing is in the changed list; it is modified when its digest
\* differs from the one recorded before it went missing, and added when no
\* digest of it was ever recorded.
C10_ReappearanceClassified ==
    [][ConsecutiveSavedRuns
          => \A n \in Range(run.missing) \cap DOMAIN run'.current :
                LET p == run.change_details[n].previous_digest
                IN  /\ n \in Range(run'.changed)
                    /\ (p # None /\ run'.current[n] # p)
                          => run'.change_details[n].status = "modified"
                    /\ (p = None /\ attempts = 1)
                          => run'.change_details[n].status = "added"]_vars

\* The latest call of run_once persisted its record, tracking A and B.
SavedRunOfAB == run.reached = "saved" /\ run.tracked = <<"A", "B">>

\* C11: with A and B tracked, from a fresh state: a run that finds A on disk
\* and B missing reports changed = [A, B], in that order, with the summary
\* {added: 1, missing: 1}; the next run, B now on disk and A as it was,
\* reports changed = [B] with the summary {added: 1}; the run after it,
\* nothing altered, reports changed = [] with an empty summary.
C11_ThreeRunScenario ==
    /\ (SavedRunOfAB /\ run.prev = EmptyDict /\ run.before_next_run_id = 1
          /\ DOMAIN run.current = {"A"} /\ run.missing = <<"B">>)
        => /\ run.changed = <<"A", "B">>
           /\ summarize_change_details(run.change_details)
                 = ("added" :> 1) @@ ("missing" :> 1)
    /\ (SavedRunOfAB /\ DOMAIN run.prev = {"A"} /\ DOMAIN run.current = {"A", "B"}
          /\ run.prev["A"] = run.current["A"])
        => /\ run.changed = <<"B">>
           /\ summarize_change_details(run.change_details) = ("added" :> 1)
    /\ (SavedRunOfAB /\ DOMAIN run.prev = {"A", "B"} /\ run.current = run.prev)
        => /\ run.changed = <<>>
           /\ summarize_change_details(run.change_details) = EmptyDict

\* C12: when a run that persisted its record without error completes with a
\* snapshot retention K >= 1, at most K snapshot directories are present,
\* whatever the retention of the runs before it; a run that found no change
\* or has snapshots disabled creates no snapshot directory.
C12_RetentionBound ==
    [][SavedRunStep
          => /\ snapshot_retention >= 1
                  => Cardinality(DOMAIN snapshots') <= snapshot_retention
             /\ (~snapshots_enabled \/ run'.changed = <<>>)
                  => DOMAIN snapshots' \subseteq DOMAIN snapshots]_vars

\* A run with snapshots disabled has found more directories than its
\* retention, left by runs that were given none, and pruned down to it.
C12_DisabledRunPrunes ==
    /\ run.reached = "saved"
    /\ ~snapshots_enabled
    /\ run.changed # <<>>
    /\ run.pruned # <<>>
    /\ snapshot_retention >= 1
    /\ Cardinality(DOMAIN snapshots) = snapshot_retention

\* C12's case happens: an idle run, with snapshots enabled and no change,
\* has found more directories than its retention, left by runs that were
\* given none, and pruned down to it without creating one.
C12_Witness ==
    /\ run.reached = "saved"
    /\ snapshots_enabled
    /\ run.changed = <<>>
    /\ run.snapshot_path = NoSnapshot
    /\ run.pruned # <<>>
    /\ snapshot_retention >= 1
    /\ Cardinality(DOMAIN snapshots) = snapshot_retention

\* C13: with a history limit H >= 1, every write of the state file leaves a
\* history of at most H records, which are the min(H, total) latest records
\* ever appended, in append order with consecutive run_id values up to the
\* latest: each write appends one record and evicts from the oldest end.
C13_HistoryBound ==
    [][(state_file' # state_file /\ history_limit # NoLimit)
          => LET old == state_file.history
                 h == state_file'.history
                 total == state_file'.next_run_id - 1
                 kept == Len(h) - 1
             IN  /\ Len(h) <= history_limit
                 /\ Len(h) = (IF total < history_limit THEN total ELSE history_limit)
                 /\ HistoryRunIds(h) = [i \in 1..Len(h) |-> total - Len(h) + i]
                 /\ kept <= Len(old)
                 /\ \A i \in 1..kept : h[i] = old[Len(old) - kept + i]]_vars

\* C13's case happens: a record has been evicted from a history of more
\* than one slot that is full, and the records before the latest are kept.
C13_Witness ==
    /\ history_limit >= 2
    /\ state_file.shape = "current"
    /\ Len(state_file.history) = history_limit
    /\ state_file.next_run_id - 1 > history_limit

\* C14: an execution that meets no I/O error, be it the single run of a
\* freshly started process or an iteration of a running loop, yields what
\* run_once computes from the state file as it is at its start and from the
\* files on disk: the same changed list, classifications and run_id, and
\* the same persisted state.
C14_RestartEquivalence ==
    [][(pc = "running" /\ attempts' = attempts + 1 /\ exc' # ErrHash)
          => LET state == Load(state_file)
                 cd == compute_patch_digests(patch_files, disk)
             IN  \E order \in Perms(DetectNames(state.digests, cd.digests, cd.missing)) :
                   LET det == detect_changes(state.digests, cd.digests, cd.missing, order)
                   IN  /\ run'.changed = det.updated
                       /\ run'.change_details = det.details
                       /\ run'.before_next_run_id = state.next_run_id
                       /\ state_file' = Save(RunOnceState(state_file, patch_files, disk,
                                                          history_limit, order),
                                             history_limit)]_vars

\* C15: save is atomic: whenever the state path is read, by a concurrent
\* reader or after a crash or an interruption, it holds a complete document
\* (or no file yet), never an empty or partly written file.
C15_AtomicSave == state_file.shape \in {"absent", "flat", "current"}

\* C16: a run that finds a state file it cannot parse loads a fresh or
\* migrated state, proceeds and persists its record; no exception of the
\* load aborts the run or, in the loop, leaves main().
C16_MalformedStateTolerated ==
    [][~Loadable(state_file)
          => /\ (pc = "running" /\ mode = "single" /\ attempts' = attempts + 1)
                  => (run'.reached = "saved" /\ state_file'.shape = "current")
             /\ exc' # ErrJSONDecode
             /\ raised' # ErrJSONDecode]_vars

\* C17: load of a legacy flat state file gives that digest map, an empty
\* history and next_run_id 1, and load of a missing state file gives the
\* empty state; the first execution after either works on the loaded digest
\* map, and the first write of the state file is in the current shape with
\* one record, whose run_id is 1.
C17_LegacyAndMissingLoad ==
    [][state_file.shape \in {"absent", "flat"}
          => /\ Load(state_file) = [digests |-> state_file.digests,
                                    history |-> <<>>, next_run_id |-> 1]
             /\ state_file.shape = "absent" => Load(state_file).digests = EmptyDict
             /\ (pc = "running" /\ run'.reached \in {"hashing", "saved"})
                  => (run'.prev = state_file.digests /\ run'.before_next_run_id = 1)
             /\ state_file' # state_file
                  => /\ state_file'.shape = "current"
                     /\ HistoryRunIds(state_file'.history) = <<1>>
                     /\ state_file'.next_run_id = 2]_vars

\* C17's case happens: the first run after a legacy flat file with a digest
\* has persisted its record.
C17_Witness ==
    /\ pc = "handler"
    /\ run.reached = "saved"
    /\ run.before_next_run_id = 1
    /\ run.prev # EmptyDict
    /\ state_file.shape = "current"

\* C18: when the single run raises, main() ends with the failure record
\* persisted, the failure heartbeat and the failure status written, and the
\* exception of the run re-raised; when an iteration of the loop raises,
\* no exception leaves main().
C18_FailureReporting ==
    AttemptFailed
        => /\ mode = "single"
              => /\ state_file.history # <<>>
                 /\ state_file.history[Len(state_file.history)].error = exc
                 /\ heartbeat.status = "error"
                 /\ status_json = "error"
                 /\ raised = exc
           /\ mode = "loop" => raised = None

\* C19: a single run in which a tracked file is absent or disappears, with
\* no other I/O error and the process not killed, completes and persists a
\* record without error.
C19_AbsenceNeverFails ==
    [][(pc = "running" /\ mode = "single" /\ Loadable(state_file)
          /\ attempts' = attempts + 1 /\ exc' # ErrHash /\ raised' # Killed)
          => /\ run'.reached = "saved"
             /\ state_file'.history # <<>>
             /\ state_file'.history[Len(state_file'.history)].error = None]_vars

\* C20: a run with snapshots enabled and a non-empty changed list creates a
\* snapshot directory that did not exist, which holds files of its changed
\* list only, and leaves the content of every other directory as it was.
C20_OwnSnapshotDirectory ==
    [][(SavedRunStep /\ snapshots_enabled /\ run'.changed # <<>>)
          => /\ run'.snapshot_path \notin DOMAIN snapshots
             /\ run'.snapshot_path \in DOMAIN snapshots'
             /\ DOMAIN snapshots'[run'.snapshot_path] \subseteq Range(run'.changed)
             /\ \A t \in DOMAIN snapshots \cap DOMAIN snapshots' :
                   snapshots'[t] = snapshots[t]]_vars

\* The loop has been interrupted and main() has handled the interrupt.
Interrupted == exc = ErrKeyboardInterrupt

\* C21: when an interrupt arrives in the loop, main() returns with no
\* exception leaving it, and the heartbeat it leaves is the failure
\* heartbeat with the message of the interruption.
C21_InterruptEndsLoop ==
    Interrupted
        => /\ pc = "exited"
           /\ mode = "loop"
           /\ raised = None
           /\ heartbeat.status = "error"
           /\ heartbeat.message = LoopInterruptedMessage

\* C21's case happens: the interrupt arrived in an iteration that had
\* already written its own failure record.
C21_Witness ==
    /\ Interrupted
    /\ iteration = 1
    /\ state_file.shape = "current"
    /\ state_file.history # <<>>

\* C22: after an execution that raised, the heartbeat is the failure
\* heartbeat of that execution, not of an earlier one; a heartbeat says ok
\* only when the run of the latest execution returned without raising.
C22_HeartbeatOfLatestIteration ==
    /\ AttemptFailed => heartbeat = write_heartbeat(FALSE, exc)
    /\ (pc = "exited" /\ heartbeat.status = "ok") => exc = None

\* The exit status of the process: non-zero when an exception (SystemExit(1)
\* included) leaves main().
ExitStatus == IF raised # None THEN 1 ELSE 0

\* C23: a single-run invocation whose run persisted its record without
\* error exits non-zero if and only if --exit-on-change is given and the
\* changed list is not empty, or --exit-on-missing is given and the missing
\* list is not empty; with neither flag it exits with status 0.  (No step of
\* the loop reads the two flags.)
C23_ExitStatus ==
    \A exit_on_change, exit_on_missing \in BOOLEAN :
        (pc = "exited" /\ mode = "single" /\ exc = ErrRenderReport /\ run.reached = "saved")
            => (ExitStatus # 0
                  <=> \/ exit_on_change /\ run.changed # <<>>
                      \/ exit_on_missing /\ run.missing # <<>>)

\* A filter argument is supplied: not None and not the empty string.
Supplied(arg) == arg.type # "null" /\ (arg.type = "str" => arg.chars # <<>>)

\* The strings among the entries of a field: the field itself when it is a
\* string, the strings it holds when it is a list.
EntriesOf(field) ==
    IF field.type = "str" THEN {field.chars}
    ELSE IF field.type = "list"
         THEN {field.items[i].chars : i \in {j \in DOMAIN field.items :
                                                field.items[j].type = "str"}}
         ELSE {}

\* The patch satisfies every filter of the call that is supplied.
SatisfiesFilters(patch, c) ==
    LET number == PatchGet(patch, "patch_number")
        source == PatchGet(patch, "source_file")
        patch_status == PatchGet(patch, "status")
    IN  /\ Supplied(c.min_patch) => (number.type = "int" /\ number.n >= c.min_patch.n)
        /\ Supplied(c.max_patch) => (number.type = "int" /\ number.n <= c.max_patch.n)
        /\ Supplied(c.source_file) => source = c.source_file
        /\ Supplied(c.status)
              => (patch_status.type = "str"
                  /\ Lower(patch_status.chars) = Lower(c.status.chars))
        /\ Supplied(c.applies_to)
              => \E entry \in EntriesOf(PatchGet(patch, "applies_to")) :
                    Contains(Lower(c.applies_to.chars), Lower(entry))
        /\ Supplied(c.system_tag)
              => \E tag \in EntriesOf(PatchGet(patch, "system_tags")) :
                    Lower(tag) = Lower(c.system_tag.chars)
        /\ Supplied(c.query) => Contains(Lower(c.query.chars), Lower(dumps(patch)))

\* C24: filter_patches returns, in input order, exactly the patches that
\* satisfy every supplied filter at once: patch_number within the inclusive
\* range, source_file equal, status equal ignoring case, applies_to a
\* substring of some entry ignoring case, system_tag equal to some tag
\* ignoring case, query a substring of the serialized patch ignoring case;
\* a filter that is not supplied (None or empty) constrains nothing.
C24_FilterPatches ==
    (call.function = "filter_patches" /\ call.returned)
        => call.result = SelectSeq(call.patches, LAMBDA patch : SatisfiesFilters(patch, call))

\* C24's case happens: a call with the status, applies_to and system_tag
\* filters supplied keeps one patch of two.
C24_Witness ==
    /\ call.function = "filter_patches" /\ call.returned
    /\ Supplied(call.status) /\ Supplied(call.applies_to) /\ Supplied(call.system_tag)
    /\ Len(call.patches) = 2
    /\ Len(call.result) = 1

\* The directories that are among the k greatest by name.
Newest(dirs, k) ==
    {t \in DOMAIN dirs : Cardinality({u \in DOMAIN dirs : u > t}) < k}

\* C25: prune_snapshots with a retention K >= 1 deletes and returns exactly
\* the directories that are not among the K greatest by name and leaves
\* those K as they were; with a retention that is unset, zero or negative
\* it deletes nothing.
C25_PruneSnapshots ==
    (call.function = "prune_snapshots" /\ call.returned)
        => IF call.retention >= 1
           THEN /\ Range(call.removed) = DOMAIN call.dirs \ Newest(call.dirs, call.retention)
                /\ Len(call.removed) = Cardinality(Range(call.removed))
                /\ DOMAIN call.remaining = Newest(call.dirs, call.retention)
                /\ \A t \in DOMAIN call.remaining : call.remaining[t] = call.dirs[t]
           ELSE call.removed = <<>> /\ call.remaining = call.dirs

\* C25's case happens: a call with a positive retention has deleted a
\* directory and left another.
C25_Witness ==
    /\ call.function = "prune_snapshots" /\ call.returned
    /\ call.retention >= 1
    /\ call.removed # <<>>
    /\ call.remaining # EmptyDict

\* C26: an interrupt takes effect only between iterations: the state file
\* an interrupted loop leaves is a complete document, the one the last
\* completed iteration left.
C26_InterruptAtBoundary ==
    [][(exc' = ErrKeyboardInterrupt /\ exc # ErrKeyboardInterrupt)
          => /\ Loadable(state_file')
             /\ state_file' = state_file]_vars

\* The step ends an invocation of main() without --loop: the except block
\* of the single run, or an invocation that returns at once.
SingleInvocationEnds ==
    /\ mode' = "single" /\ pc' = "exited"
    /\ \/ pc = "handler"
       \/ pc \in {"idle", "exited"} /\ disk' = disk

\* C27: an invocation without --loop executes the run once and appends
\* exactly one RunRecord, also when --max-iterations is given.
C27_SingleRunOnce ==
    [][SingleInvocationEnds
          => /\ pc = "handler"
             /\ state_file'.next_run_id = run.before_next_run_id + 1]_vars

\* C28: every write of the state file appends one record, which takes the
\* next_run_id the file held, and raises next_run_id by one, so that,
\* counting from the absent file's 1, next_run_id is 1 plus the number of
\* records ever appended, exceeds every run_id of the history, is never
\* lowered by an eviction, and no run_id is given twice.
C28_RunIdsNeverReused ==
    [][state_file' # state_file
          => LET old == Load(state_file)
                 h == state_file'.history
                 kept == Len(h) - 1
             IN  /\ state_file'.next_run_id = old.next_run_id + 1
                 /\ h # <<>>
                 /\ h[Len(h)].run_id = old.next_run_id
                 /\ kept <= Len(old.history)
                 /\ \A i \in 1..kept : h[i] = old.history[Len(old.history) - kept + i]
                 /\ \A i \in DOMAIN h : h[i].run_id < state_file'.next_run_id
                 /\ \A i, j \in DOMAIN h : i < j => h[i].run_id < h[j].run_id]_vars

\* C28's case happens: records were evicted, and next_run_id counts them
\* still.
C28_Witness ==
    /\ state_file.shape = "current"
    /\ history_limit # NoLimit
    /\ state_file.next_run_id = 5
    /\ Len(state_file.history) = 1
    /\ state_file.history[1].run_id = 4

\* C29: with a retention of at least one and a clock that does not go
\* back, the snapshot a run creates is not among the directories that run
\* prunes, and is there when the run ends.
C29_OwnSnapshotSurvives ==
    [][(SavedRunStep /\ run'.snapshot_path # NoSnapshot /\ snapshot_retention >= 1)
          => /\ \A t \in DOMAIN snapshots : t <= run'.snapshot_path
             /\ run'.snapshot_path \notin Range(run'.pruned)
             /\ run'.snapshot_path \in DOMAIN snapshots']_vars

\* C29's case happens: a run has created a snapshot and pruned an older
\* one.
C29_Witness ==
    /\ run.reached = "saved"
    /\ snapshot_retention >= 1
    /\ run.snapshot_path # NoSnapshot
    /\ run.pruned # <<>>
    /\ run.snapshot_path \in DOMAIN snapshots

\* C30: when the call of run_once before this one detected a change to a
\* file and failed in apply_plan, before the state was persisted, a run
\* that persists its record reports every such file that still differs from
\* the recorded digest as changed again, against the same previous digest,
\* in a record without error.
C30_NoChangeLost ==
    [][(SavedRunStep /\ run.reached = "planning")
          => \A n \in Range(run.changed) :
                Get(compute_patch_digests(patch_files, disk).digests, n)
                      # run.change_details[n].previous_digest
                   => LET h == state_file'.history
                      IN  /\ n \in Range(run'.changed)
                          /\ run'.change_details[n].previous_digest
                                = run.change_details[n].previous_digest
                          /\ h[Len(h)].error = None
                          /\ n \in Range(h[Len(h)].changed_files)]_vars

\* C30's case happens: the heartbeat is still that of a run that failed in
\* apply_plan, and the run after it has persisted a record that reports a
\* file with a recorded digest as modified.
C30_Witness ==
    /\ pc = "handler"
    /\ run.reached = "saved"
    /\ heartbeat.message = ErrCopy
    /\ "A" \in DOMAIN run.change_details
    /\ run.change_details["A"].status = "modified"

====
